---------------------------- MODULE Spec2Model ----------------------------
(***************************************************************************)
(* Sparse repodata loader of rattler_repodata_gateway (sparse/mod.rs):     *)
(* the filename parser, the shallow index with its sort, the equal-range   *)
(* lookup, the record materializer (parse_records / load_records) and the  *)
(* transitive resolver (load_records_recursive).                           *)
(*                                                                         *)
(* Strings are sequences of one-character strings, so that splitting on    *)
(* '-' and ' ' and the byte-wise order of str::cmp are computed, not       *)
(* assumed.                                                                *)
(***************************************************************************)
EXTENDS Integers, Sequences, FiniteSets, TLC

VARIABLES
    files,          \* the (channel, subdir, repodata.json, patch function) opened
    handles,        \* the SparseRepoData values built from files, in the same order
    roots,          \* package_names argument of load_records_recursive
    patch_function, \* patch_function argument of load_records_recursive
    seen,           \* HashSet<PackageName> of load_records_recursive
    pending,        \* VecDeque<PackageName> of load_records_recursive
    result,         \* Vec<Vec<RepoDataRecord>> of load_records_recursive
    next_package,   \* the name popped from pending
    i,              \* index of the handle the for loop is at (1-based)
    pc,             \* position in load_records_recursive
    ret,            \* value returned by load_records_recursive
    call,           \* 1: the call on roots, 2: a second call on the de-duplicated roots
    first,          \* value returned by call 1, kept while call 2 runs
    loaded,         \* the last load_records call: its arguments and its io::Result
    listed,         \* the last package_names call: its handle and what it yielded
    tried,          \* the last PackageFilename::try_from call: its argument and its Result
    spawned,        \* number of repo_data_paths whose spawn_blocking task was started
    finished        \* the completed tasks: how many the stream has yielded, whether
                    \* the task at the head of the buffer has completed, how many
                    \* behind it have, and whether one ever completed before the head

vars == <<files, handles, roots, patch_function, seen, pending, result, next_package,
          i, pc, ret, call, first, loaded, listed, tried, spawned, finished>>

\* the variables of the operations other than the resolver and load_records
others == <<listed, tried, spawned, finished>>

-----------------------------------------------------------------------------
(* Bounds of the model *)

MaxEntries == 3   \* entries of one repodata document (both maps together)
MaxHandles == 2   \* handles given to one resolver call
MaxRoots == 3     \* length of the root sequence
MaxFilenameLen == 7   \* length of the strings given to the filename parser
MaxSpecs == 51        \* the longest list of repo_data_paths

-----------------------------------------------------------------------------
(* Strings *)

\* The characters used, in ascending byte order (' ' < '-' < digits < letters).
Alphabet == <<" ", "-", "0", "1", "a", "b", "c", "p", "t", "x", "y">>

Ord == [c \in {Alphabet[k] : k \in DOMAIN Alphabet} |->
            CHOOSE k \in DOMAIN Alphabet : Alphabet[k] = c]

\* str::cmp: lexicographic comparison of the bytes
RECURSIVE cmp(_, _)
cmp(s, t) ==
    IF s = <<>> THEN (IF t = <<>> THEN "Equal" ELSE "Less")
    ELSE IF t = <<>> THEN "Greater"
    ELSE IF Ord[Head(s)] < Ord[Head(t)] THEN "Less"
    ELSE IF Ord[Head(s)] > Ord[Head(t)] THEN "Greater"
    ELSE cmp(Tail(s), Tail(t))

\* positions of the character c in s, ascending
Positions(s, c) == {k \in DOMAIN s : s[k] = c}

Max(S) == CHOOSE m \in S : \A k \in S : k <= m
Min(S) == CHOOSE m \in S : \A k \in S : m <= k

-----------------------------------------------------------------------------
(* Filename parser *)

\* The absent value of an Option<&str>; "?" is no character of the alphabet.
None == <<"?">>

\* (variant) s.splitn(3, '-'): split from the left, the first piece taken
splitn3_first(s) ==
    LET dashes == Positions(s, "-")
    IN  IF Cardinality(dashes) < 2 THEN None
        ELSE SubSeq(s, 1, Min(dashes) - 1)

\* s.rsplitn(3, '-').nth(2): the part of s before the second dash from the right
rsplitn3_nth2(s) ==
    LET dashes == Positions(s, "-")
    IN  IF Cardinality(dashes) < 2 THEN None
        ELSE LET last == Max(dashes)
                 second == Max(dashes \ {last})
             IN  SubSeq(s, 1, second - 1)

\* (variant) rsplitn(2, '-').nth(1): only the last field is split off
try_from_rsplitn2(s) ==
    LET dashes == Positions(s, "-")
    IN  IF dashes = {} THEN [ok |-> FALSE]
        ELSE [ok |-> TRUE, package |-> SubSeq(s, 1, Max(dashes) - 1), filename |-> s]

\* PackageFilename::try_from
try_from(s) ==
    LET package == rsplitn3_nth2(s)
    IN  IF package = None THEN [ok |-> FALSE]
        ELSE [ok |-> TRUE, package |-> package, filename |-> s]

-----------------------------------------------------------------------------
(* Shallow index *)

\* (variant) the entry goes before the entries of its own package: not stable
InsertSortedBeforeEqual(sorted, e) ==
    LET keep == {k \in DOMAIN sorted :
                    cmp(sorted[k].key.package, e.key.package) = "Less"}
        n == IF keep = {} THEN 0 ELSE Max(keep)
    IN  SubSeq(sorted, 1, n) \o <<e>> \o SubSeq(sorted, n + 1, Len(sorted))

\* The stable insertion of one entry into a sequence sorted by key.package:
\* e goes after every entry whose package is not greater than its own.
InsertSorted(sorted, e) ==
    LET keep == {k \in DOMAIN sorted :
                    cmp(sorted[k].key.package, e.key.package) # "Greater"}
        n == IF keep = {} THEN 0 ELSE Max(keep)
    IN  SubSeq(sorted, 1, n) \o <<e>> \o SubSeq(sorted, n + 1, Len(sorted))

\* (variant) the entries are left in document order
sort_by_nothing(entries) == entries

\* entries.sort_by(|(a, _), (b, _)| a.package.cmp(b.package)): a stable sort
RECURSIVE sort_by(_)
sort_by(entries) ==
    IF entries = <<>> THEN <<>>
    ELSE InsertSorted(sort_by(SubSeq(entries, 1, Len(entries) - 1)),
                      entries[Len(entries)])

\* MapVisitor / MapIter: the (key, value) pairs of a JSON map in document
\* order, each key parsed by PackageFilename::try_from; Err when a key fails.
visit_map(map) ==
    IF \E k \in DOMAIN map : ~try_from(map[k].filename).ok
    THEN [ok |-> FALSE]
    ELSE [ok |-> TRUE,
          entries |-> [k \in DOMAIN map |->
                          [key |-> [package |-> try_from(map[k].filename).package,
                                    filename |-> map[k].filename],
                           raw |-> map[k].raw]]]

\* deserialize_filename_and_raw_record: collect the map, then sort by package
deserialize_filename_and_raw_record(map) ==
    LET visited == visit_map(map)
    IN  IF ~visited.ok THEN [ok |-> FALSE]
        ELSE [ok |-> TRUE, entries |-> sort_by(visited.entries)]

\* SparseRepoData::new on a document doc = [info, packages, conda_packages]
\* (each map a sequence of [filename, raw] in document order).
new(channel, subdir, doc, patch_fn) ==
    LET packages == deserialize_filename_and_raw_record(doc.packages)
        conda_packages == deserialize_filename_and_raw_record(doc.conda_packages)
    IN  IF ~packages.ok \/ ~conda_packages.ok THEN [ok |-> FALSE]
        ELSE [ok |-> TRUE,
              value |-> [inner |-> [info |-> doc.info,
                                    packages |-> packages.entries,
                                    conda_packages |-> conda_packages.entries],
                         channel |-> channel,
                         subdir |-> subdir,
                         patch_record_fn |-> patch_fn]]

-----------------------------------------------------------------------------
(* Equal-range lookup (superslice::Ext::equal_range_by), 0-based as in Rust *)

\* the closure |(package, _)| package.package.cmp(package_name.as_normalized())
f(packages, package_name, k) == cmp(packages[k + 1].key.package, package_name)

\* the while loop: both bounds are bisected together
RECURSIVE bisect(_, _, _, _, _)
bisect(packages, package_name, size, base0, base1) ==
    IF size <= 1 THEN <<base0, base1>>
    ELSE LET half == size \div 2
             mid0 == base0 + half
             mid1 == base1 + half
         IN  bisect(packages, package_name, size - half,
                    IF f(packages, package_name, mid0) = "Less" THEN mid0 ELSE base0,
                    IF f(packages, package_name, mid1) # "Greater" THEN mid1 ELSE base1)

\* the half-open range start..end of the entries equal to package_name
equal_range_by(packages, package_name) ==
    IF Len(packages) = 0 THEN [start |-> 0, end |-> 0]
    ELSE LET base == bisect(packages, package_name, Len(packages), 0, 0)
         IN  [start |-> base[1] +
                  (IF f(packages, package_name, base[1]) = "Less" THEN 1 ELSE 0),
              end |-> base[2] +
                  (IF f(packages, package_name, base[2]) # "Greater" THEN 1 ELSE 0)]

-----------------------------------------------------------------------------
(* Record materializer *)

python == <<"p", "y">>
pip == <<"p">>

\* The patch functions a caller passes: none, or the one of the doc comment
\* ("mainly used to add pip to python"), which here also takes the dependency
\* b away from python.
PatchFunctions == {"None", "add_pip"}

\* patch_fn(&mut record.package_record); the function need not be idempotent
patch_fn_apply(patch_fn, package_record) ==
    IF patch_fn = "add_pip" /\ package_record.name = python
    THEN [package_record EXCEPT
             !.depends = Append(SelectSeq(@, LAMBDA d : d # <<"b">>), pip)]
    ELSE package_record

\* serde_json::from_str::<PackageRecord>(raw): an omitted subdir is the empty string
from_str(raw) ==
    IF ~raw.valid THEN [ok |-> FALSE]
    ELSE [ok |-> TRUE,
          package_record |-> [name |-> raw.name,
                              subdir |-> IF raw.subdir = None THEN <<>> ELSE raw.subdir,
                              depends |-> raw.depends]]

\* compute_package_url(channel.base_url.join("{subdir}/"), base_url, filename):
\* the function is defined elsewhere; the url is kept as what it is computed from.
compute_package_url(channel, subdir, base_url, filename) ==
    [repo_base |-> <<channel, subdir>>, base_url |-> base_url, filename |-> filename]

\* (variant) the subdir of the raw record is kept even when empty
materialize_keep_subdir(entry, base_url, channel, subdir) ==
    LET package_record == from_str(entry.raw).package_record
    IN  [url |-> compute_package_url(channel, package_record.subdir, base_url,
                                     entry.key.filename),
         channel |-> channel,
         package_record |-> package_record,
         file_name |-> entry.key.filename]

\* one iteration of the for loop of parse_records
materialize(entry, base_url, channel, subdir) ==
    LET parsed == from_str(entry.raw).package_record
        package_record ==
            IF parsed.subdir = <<>> THEN [parsed EXCEPT !.subdir = subdir] ELSE parsed
    IN  [url |-> compute_package_url(channel, package_record.subdir, base_url,
                                     entry.key.filename),
         channel |-> channel,
         package_record |-> package_record,
         file_name |-> entry.key.filename]

\* (variant) a raw record that does not deep-parse is skipped
parse_records_skip_errors(package_name, packages, base_url, channel, subdir, patch_fn) ==
    LET package_indices == equal_range_by(packages, package_name)
        range == SelectSeq(SubSeq(packages, package_indices.start + 1, package_indices.end),
                           LAMBDA e : from_str(e.raw).ok)
    IN  [ok |-> TRUE,
         records |-> [k \in DOMAIN range |->
             [materialize(range[k], base_url, channel, subdir)
                 EXCEPT !.package_record = patch_fn_apply(patch_fn, @)]]]

\* (variant) the patch function is applied while the list is assembled and
\* again after it
parse_records_patch_twice(package_name, packages, base_url, channel, subdir, patch_fn) ==
    LET package_indices == equal_range_by(packages, package_name)
        range == SubSeq(packages, package_indices.start + 1, package_indices.end)
    IN  IF \E k \in DOMAIN range : ~from_str(range[k].raw).ok
        THEN [ok |-> FALSE]
        ELSE [ok |-> TRUE,
              records |-> [k \in DOMAIN range |->
                  [materialize(range[k], base_url, channel, subdir)
                      EXCEPT !.package_record =
                          patch_fn_apply(patch_fn, patch_fn_apply(patch_fn, @))]]]

\* parse_records: the records of package_name in one shallow sequence
parse_records(package_name, packages, base_url, channel, subdir, patch_fn) ==
    LET package_indices == equal_range_by(packages, package_name)
        range == SubSeq(packages, package_indices.start + 1, package_indices.end)
    IN  IF \E k \in DOMAIN range : ~from_str(range[k].raw).ok
        THEN [ok |-> FALSE]
        ELSE LET parsed == [k \in DOMAIN range |->
                               materialize(range[k], base_url, channel, subdir)]
             IN  [ok |-> TRUE,
                  records |-> [k \in DOMAIN parsed |->
                      [parsed[k] EXCEPT !.package_record = patch_fn_apply(patch_fn, @)]]]

\* SparseRepoData::load_records
load_records(self, package_name) ==
    LET repo_data == self.inner
        base_url == repo_data.info
        records == parse_records(package_name, repo_data.packages, base_url,
                                 self.channel, self.subdir, self.patch_record_fn)
        conda_records == parse_records(package_name, repo_data.conda_packages, base_url,
                                       self.channel, self.subdir, self.patch_record_fn)
    IN  IF ~records.ok THEN [ok |-> FALSE]
        ELSE IF ~conda_records.ok THEN [ok |-> FALSE]
        ELSE [ok |-> TRUE, records |-> records.records \o conda_records.records]

-----------------------------------------------------------------------------
(* Inputs: repodata documents *)

Raw(name, subdir, depends) ==
    [valid |-> TRUE, name |-> name, subdir |-> subdir, depends |-> depends]

\* a value that serde_json cannot deep-parse into a PackageRecord
Malformed == [valid |-> FALSE, name |-> <<>>, subdir |-> None, depends |-> <<>>]

Entry(filename, raw) == [filename |-> filename, raw |-> raw]

\* keys of the `packages` map (build string t).  a-0-t, a-1-1-t, a-1-t are
\* sorted by filename and not by package (a, a-1, a); b-1-t carries a record
\* whose name field is not the name in its filename; p-0-t does not deep-parse.
LegacyEntries ==
    { Entry(<<"a", "-", "0", "-", "t">>,
            Raw(<<"a">>, None, << <<"b", " ", "1">> >>)),
      Entry(<<"a", "-", "1", "-", "1", "-", "t">>,
            Raw(<<"a", "-", "1">>, <<"x">>, <<>>)),
      Entry(<<"a", "-", "1", "-", "t">>,
            Raw(<<"a">>, <<>>, << <<"a", "-", "1">> >>)),
      Entry(<<"b", "-", "0", "-", "t">>,
            Raw(<<"b">>, <<"x">>, << <<"a">> >>)),
      Entry(<<"b", "-", "1", "-", "t">>,
            Raw(<<"c">>, <<>>, <<>>)),
      Entry(<<"p", "-", "0", "-", "t">>, Malformed),
      Entry(<<"p", "y", "-", "0", "-", "t">>,
            Raw(python, None, << <<"b">> >>)) }

\* keys of the `packages.conda` map (build string c)
CondaEntries ==
    { Entry(<<"a", "-", "0", "-", "c">>,
            Raw(<<"a">>, None, << <<"p", " ", " ", "-">>, <<"b">> >>)),
      Entry(<<"p", "-", "1", "-", "c">>,
            Raw(pip, <<"x">>, << python >>)) }

\* the sequences without repetition of at most n elements of S
RECURSIVE Arrangements(_, _)
Arrangements(S, n) ==
    IF n = 0 THEN {<<>>}
    ELSE LET shorter == Arrangements(S, n - 1)
         IN  shorter \cup
             {Append(s, e) : <<s, e>> \in
                 {<<s, e>> \in shorter \X S :
                     Len(s) = n - 1 /\ \A k \in DOMAIN s : s[k] # e}}

\* every document of at most MaxEntries entries, the keys of each map in any order
Documents ==
    {[info |-> None, packages |-> ps, conda_packages |-> cs] :
        <<ps, cs>> \in {<<ps, cs>> \in Arrangements(LegacyEntries, MaxEntries)
                                       \X Arrangements(CondaEntries, MaxEntries) :
                            Len(ps) + Len(cs) <= MaxEntries}}

Subdirs == {<<>>, <<"y">>}

File(channel, subdir, path, patch_fn) ==
    [channel |-> channel, subdir |-> subdir, path |-> path, patch_function |-> patch_fn]

\* the handle of a file whose keys all parse
Open(file) == new(file.channel, file.subdir, file.path, file.patch_function).value

\* the files load_records is called on
LoadFiles ==
    {File("cf", subdir, doc, patch_fn) :
        subdir \in Subdirs, doc \in Documents, patch_fn \in PatchFunctions}

\* the names load_records and the resolver are asked for
Names == {<<"a">>, <<"a", "-", "1">>, <<"b">>, pip, python}

Document(info, ps, cs) == [info |-> info, packages |-> ps, conda_packages |-> cs]

LegacyEntry(filename) == CHOOSE e \in LegacyEntries : e.filename = filename
CondaEntry(filename) == CHOOSE e \in CondaEntries : e.filename = filename

\* The repodata files the resolver is run on: a channel with a dependency
\* cycle a <-> b in both maps; the filename-sorted a, a-1, a; python and pip;
\* a file with a record that does not deep-parse; one whose record name is
\* not its filename's; python in a handle that has a patch function of its
\* own; an empty one.
ResolverFiles ==
    { File("cf", <<"x">>,
           Document(None,
                    <<LegacyEntry(<<"a", "-", "0", "-", "t">>),
                      LegacyEntry(<<"b", "-", "0", "-", "t">>)>>,
                    <<CondaEntry(<<"a", "-", "0", "-", "c">>)>>), "None"),
      File("cf", <<"y">>,
           Document(None,
                    <<LegacyEntry(<<"a", "-", "0", "-", "t">>),
                      LegacyEntry(<<"a", "-", "1", "-", "1", "-", "t">>),
                      LegacyEntry(<<"a", "-", "1", "-", "t">>)>>,
                    <<>>), "add_pip"),
      File("cf", <<>>,
           Document(<<"u">>,
                    <<LegacyEntry(<<"p", "y", "-", "0", "-", "t">>)>>,
                    <<CondaEntry(<<"p", "-", "1", "-", "c">>)>>), "None"),
      File("cf", <<"y">>,
           Document(None,
                    <<LegacyEntry(<<"b", "-", "0", "-", "t">>),
                      LegacyEntry(<<"p", "-", "0", "-", "t">>)>>,
                    <<>>), "None"),
      File("cf", <<"y">>,
           Document(None,
                    <<LegacyEntry(<<"b", "-", "1", "-", "t">>)>>,
                    <<>>), "None"),
      File("cf", <<"x">>,
           Document(None,
                    <<LegacyEntry(<<"p", "y", "-", "0", "-", "t">>)>>,
                    <<>>), "add_pip"),
      File("cf", <<"x">>, Document(None, <<>>, <<>>), "add_pip") }

\* the sequences of at most n elements of S
RECURSIVE SeqsUpTo(_, _)
SeqsUpTo(S, n) ==
    IF n = 0 THEN {<<>>}
    ELSE LET shorter == SeqsUpTo(S, n - 1)
         IN  shorter \cup {Append(s, e) : <<s, e>> \in {<<s, e>> \in shorter \X S : Len(s) = n - 1}}

RootNames == {<<"a">>, python}

-----------------------------------------------------------------------------
(* Transitive resolver: SparseRepoData::load_records_recursive *)

Range(s) == {s[k] : k \in DOMAIN s}

\* the orders in which a HashSet may iterate over its elements
Orders(S) == {s \in Arrangements(S, Cardinality(S)) : Len(s) = Cardinality(S)}

\* (variant) the whole dependency string is taken as the name
dependency_name_whole(dependency) == dependency

\* dependency.split_once(' ').unwrap_or((dependency, "")).0
dependency_name(dependency) ==
    LET spaces == Positions(dependency, " ")
    IN  IF spaces = {} THEN dependency
        ELSE SubSeq(dependency, 1, Min(spaces) - 1)

\* the dependency names of a list of records, in the order the two nested
\* for loops visit them
RECURSIVE dependency_names(_)
dependency_names(records) ==
    IF records = <<>> THEN <<>>
    ELSE [k \in DOMAIN Head(records).package_record.depends |->
              dependency_name(Head(records).package_record.depends[k])]
         \o dependency_names(Tail(records))

\* (variant) a new name is marked seen and never queued
RECURSIVE enqueue_seen_only(_, _, _)
enqueue_seen_only(names, seen0, pending0) ==
    IF names = <<>> THEN [seen |-> seen0, pending |-> pending0]
    ELSE enqueue_seen_only(Tail(names), seen0 \cup {Head(names)}, pending0)

\* (variant) a name is queued whether seen or not
RECURSIVE enqueue_always(_, _, _)
enqueue_always(names, seen0, pending0) ==
    IF names = <<>> THEN [seen |-> seen0, pending |-> pending0]
    ELSE enqueue_always(Tail(names), seen0 \cup {Head(names)}, Append(pending0, Head(names)))

\* if !seen.contains(..) { pending.push_back(..); seen.insert(..) } over names
RECURSIVE enqueue(_, _, _)
enqueue(names, seen0, pending0) ==
    IF names = <<>> THEN [seen |-> seen0, pending |-> pending0]
    ELSE IF Head(names) \in seen0 THEN enqueue(Tail(names), seen0, pending0)
    ELSE enqueue(Tail(names), seen0 \cup {Head(names)}, Append(pending0, Head(names)))

\* (variant) Vec::new(): no list per handle
new_result_empty(n) == <<>>

\* Vec::from_iter((0..repo_data.len()).map(|_| Vec::new()))
new_result(n) == [k \in 1..n |-> <<>>]

\* HashSet::from_iter(package_names)
from_iter(package_names) == Range(package_names)

\* (variant) the queue is filled from the argument, repetitions included
pending_from_names(seen0, package_names) == {package_names}

\* VecDeque::from_iter(seen.iter().cloned()): the set in any iteration order
pending_from(seen0, package_names) == Orders(seen0)

\* (variant) the records go to the first list whatever the handle
append_result_first(result0, k, records) == [result0 EXCEPT ![1] = @ \o records]

\* result[i].append(&mut records)
append_result(result0, k, records) == [result0 EXCEPT ![k] = @ \o records]

\* the operations other than the resolver and load_records have not run
Idle ==
    /\ listed = [called |-> FALSE]
    /\ tried = [called |-> FALSE]
    /\ spawned = 0
    /\ finished = [yielded |-> 0, head |-> FALSE, others |-> 0, overtaken |-> FALSE]

\* lines 127-136: the state of a call before the while loop
Enter(package_names) ==
    /\ result = new_result(Len(handles))
    /\ seen = from_iter(package_names)
    /\ pending \in pending_from(seen, package_names)
    /\ next_package = None
    /\ i = 0
    /\ pc = "while"
    /\ ret = [kind |-> "none"]

Init ==
    /\ files \in SeqsUpTo(ResolverFiles, MaxHandles)
    /\ handles = [k \in DOMAIN files |-> Open(files[k])]
    /\ roots \in SeqsUpTo(RootNames, MaxRoots)
    /\ patch_function \in PatchFunctions
    /\ Enter(roots)
    /\ call = 1
    /\ first = [roots |-> <<>>, ret |-> [kind |-> "none"]]
    /\ loaded = [called |-> FALSE]
    /\ Idle

\* (variant) the front is read and left in the queue
pop_front_peek(queue) ==
    IF queue = <<>> THEN [some |-> FALSE]
    ELSE [some |-> TRUE, value |-> Head(queue), queue |-> queue]

\* VecDeque::pop_front
pop_front(queue) ==
    IF queue = <<>> THEN [some |-> FALSE]
    ELSE [some |-> TRUE, value |-> Head(queue), queue |-> Tail(queue)]

\* while let Some(next_package) = pending.pop_front()
PopFront ==
    /\ pc = "while"
    /\ pop_front(pending).some
    /\ next_package' = pop_front(pending).value
    /\ pending' = pop_front(pending).queue
    /\ i' = 1
    /\ pc' = IF Len(handles) = 0 THEN "while" ELSE "for"
    /\ UNCHANGED <<files, handles, roots, patch_function, seen, result, ret, call, first,
                   loaded, others>>

\* (variant) the records are parsed with the call's patch function if there
\* is one, and with the handle's own otherwise
get_all_records_or_own_patch(repo_data, package_name, patch_fn) ==
    LET repo_data_packages == repo_data.inner
        base_url == repo_data_packages.info
        fn == IF patch_fn = "None" THEN repo_data.patch_record_fn ELSE patch_fn
        records == parse_records(package_name, repo_data_packages.packages,
                                 base_url, repo_data.channel, repo_data.subdir, fn)
        conda_records == parse_records(package_name,
                                       repo_data_packages.conda_packages,
                                       base_url, repo_data.channel,
                                       repo_data.subdir, fn)
    IN  IF ~records.ok \/ ~conda_records.ok THEN [ok |-> FALSE]
        ELSE [ok |-> TRUE, records |-> records.records \o conda_records.records]

\* (variant) the records are patched with the function stored in the handle
get_all_records_own_patch(repo_data, package_name, patch_fn) ==
    load_records(repo_data, package_name)

\* lines 141-164, "Get all records from the repodata": both sequences of one
\* handle parsed with the patch function of the call, legacy then conda
get_all_records(repo_data, package_name, patch_fn) ==
    LET repo_data_packages == repo_data.inner
        base_url == repo_data_packages.info
        records == parse_records(package_name, repo_data_packages.packages,
                                 base_url, repo_data.channel, repo_data.subdir,
                                 patch_fn)
        conda_records == parse_records(package_name,
                                       repo_data_packages.conda_packages,
                                       base_url, repo_data.channel,
                                       repo_data.subdir, patch_fn)
    IN  IF ~records.ok \/ ~conda_records.ok THEN [ok |-> FALSE]
        ELSE [ok |-> TRUE, records |-> records.records \o conda_records.records]

\* (variant) the dependencies are read off the records as they are before the
\* patch function is applied
visit_before_patch(repo_data, package_name, patch_fn, seen0, pending0) ==
    LET records == get_all_records(repo_data, package_name, patch_fn)
        unpatched == get_all_records(repo_data, package_name, "None")
    IN  IF ~records.ok THEN [ok |-> FALSE]
        ELSE LET queued == enqueue(dependency_names(unpatched.records), seen0, pending0)
             IN  [ok |-> TRUE, records |-> records.records,
                  seen |-> queued.seen, pending |-> queued.pending]

\* lines 141-177: the records of one handle for one name, and the queue and
\* the set after the dependencies of these records have been gone through
visit(repo_data, package_name, patch_fn, seen0, pending0) ==
    LET records == get_all_records(repo_data, package_name, patch_fn)
    IN  IF ~records.ok THEN [ok |-> FALSE]
        ELSE LET queued == enqueue(dependency_names(records.records), seen0, pending0)
             IN  [ok |-> TRUE, records |-> records.records,
                  seen |-> queued.seen, pending |-> queued.pending]

\* the body of `for (i, repo_data) in repo_data.iter().enumerate()` for handle i
ForHandle ==
    /\ pc = "for"
    /\ \E visited \in {visit(handles[i], next_package, patch_function, seen, pending)} :
           \* (the one value, bound so that it is computed once)
           IF ~visited.ok
           THEN /\ pc' = "err"
                /\ ret' = [kind |-> "Err"]
                /\ UNCHANGED <<seen, pending, result, i>>
           ELSE /\ seen' = visited.seen
                /\ pending' = visited.pending
                /\ result' = append_result(result, i, visited.records)
                /\ i' = i + 1
                /\ pc' = IF i = Len(handles) THEN "while" ELSE "for"
                /\ ret' = ret
    /\ UNCHANGED <<files, handles, roots, patch_function, next_package, call, first,
                   loaded, others>>

\* Ok(result), once pop_front returns None
Return ==
    /\ pc = "while"
    /\ ~pop_front(pending).some
    /\ pc' = "done"
    /\ ret' = [kind |-> "Ok", value |-> result]
    /\ UNCHANGED <<files, handles, roots, patch_function, seen, pending, result,
                   next_package, i, call, first, loaded, others>>

Next == PopFront \/ ForHandle \/ Return

Spec == Init /\ [][Next]_vars

\* the call has not returned; while it has not, one of PopFront, ForHandle and
\* Return can be taken and changes the state
Running == pc \in {"while", "for"}

\* The function is synchronous and runs on until it returns: weak fairness of
\* Next, written out with Running for ENABLED <<Next>>_vars.
SpecFair == Spec /\ ([]<>~Running \/ []<><<Next>>_vars)

-----------------------------------------------------------------------------
(* The same call again, on the de-duplicated roots *)

\* the roots without their repetitions, first occurrences kept
RECURSIVE Dedup(_)
Dedup(s) ==
    IF s = <<>> THEN <<>>
    ELSE LET front == Dedup(SubSeq(s, 1, Len(s) - 1))
         IN  IF s[Len(s)] \in Range(front) THEN front ELSE Append(front, s[Len(s)])

\* once call 1 has returned, load_records_recursive(handles, Dedup(roots), patch_function)
CallAgain ==
    /\ call = 1
    /\ pc \in {"done", "err"}
    /\ first' = [roots |-> roots, ret |-> ret]
    /\ call' = 2
    /\ roots' = Dedup(roots)
    /\ result' = new_result(Len(handles))
    /\ seen' = from_iter(roots')
    /\ pending' \in pending_from(seen', roots')
    /\ next_package' = None
    /\ i' = 0
    /\ pc' = "while"
    /\ ret' = [kind |-> "none"]
    /\ UNCHANGED <<files, handles, patch_function, loaded, others>>

NextDup == Next \/ CallAgain

SpecDup == Init /\ [][NextDup]_vars

-----------------------------------------------------------------------------
(* load_repo_data_recursively *)

\* .buffered(50)
BUFFERED == 50

\* a file whose only key a-t has fewer than three fields
BadDocument ==
    Document(None, <<Entry(<<"a", "-", "t">>, Raw(<<"a">>, None, <<>>))>>, <<>>)

GoodDocument == Document(None, <<LegacyEntry(<<"a", "-", "0", "-", "t">>)>>, <<>>)

SpecCounts == {0, 1, 2, 3, MaxSpecs}

\* repo_data_paths: n specs, each of its own channel, the files at the
\* positions in bad unreadable
LoaderFiles(patch_fn) ==
    UNION {{[k \in 1..n |-> File(ToString(k), <<"x">>,
                                  IF k \in bad THEN BadDocument ELSE GoodDocument,
                                  patch_fn)] :
               bad \in SUBSET ({1, 2, n} \cap 1..n)} : n \in SpecCounts}

LoaderRoots == {<<>>, << <<"a">> >>}

\* the closure run by spawn_blocking for one spec
spawn_blocking(file) == new(file.channel, file.subdir, file.path, file.patch_function)

\* (variant) a buffer that holds one future more
fill_one_more(n, yielded, started) == Max({started, Min({n, yielded + BUFFERED + 1})})

\* Buffered::poll_next, first half: futures are taken from the stream, and
\* their tasks started, while fewer than BUFFERED are in the buffer
fill(n, yielded, started) == Max({started, Min({n, yielded + BUFFERED})})

\* (variant) a buffer that yields whichever output is there
next_outgoing_unordered(yielded, fin) ==
    IF fin.others > 0 THEN yielded + 2 ELSE yielded + 1

\* Buffered::poll_next, second half: the buffer is ordered, the output it
\* yields is that of the oldest future in it
next_outgoing(yielded, fin) == yielded + 1

\* (variant) an item that is an error is passed over
try_collect_skip_errors(vec, item) ==
    IF item.ok THEN [ok |-> TRUE, vec |-> Append(vec, item.value)]
    ELSE [ok |-> TRUE, vec |-> vec]

\* try_collect::<Vec<_>>(), one item: Ok extends the vector, Err ends the collection
try_collect(vec, item) ==
    IF item.ok THEN [ok |-> TRUE, vec |-> Append(vec, item.value)]
    ELSE [ok |-> FALSE]

\* the completed tasks once the head of the buffer has been yielded: the next
\* future becomes the head, completed or not
Shift(fin, started) ==
    LET yielded == fin.yielded + 1
        queued == started - yielded
    IN  {g \in {[fin EXCEPT !.yielded = yielded, !.head = h,
                            !.others = IF h THEN @ - 1 ELSE @] : h \in BOOLEAN} :
            IF g.head THEN fin.others > 0
            ELSE fin.others < queued \/ queued = 0}

InitLoader ==
    /\ patch_function \in PatchFunctions
    /\ files \in LoaderFiles(patch_function)
    /\ handles = <<>>
    /\ roots \in LoaderRoots
    /\ result = <<>>
    /\ seen = {}
    /\ pending = <<>>
    /\ next_package = None
    /\ i = 0
    /\ pc = "collect"
    /\ ret = [kind |-> "none"]
    /\ call = 0
    /\ first = [roots |-> <<>>, ret |-> [kind |-> "none"]]
    /\ loaded = [called |-> FALSE]
    /\ Idle

\* a poll that starts tasks and finds the oldest one still running
PollPending ==
    /\ pc = "collect"
    /\ spawned' = fill(Len(files), finished.yielded, spawned)
    /\ spawned' > spawned
    /\ ~finished.head
    /\ UNCHANGED <<files, handles, roots, patch_function, seen, pending, result,
                   next_package, i, pc, ret, call, first, loaded, listed, tried,
                   finished>>

\* a poll that finds the oldest task completed: its output is yielded to
\* try_collect, and an error leaves the function through `?`
PollReady ==
    /\ pc = "collect"
    /\ spawned' = fill(Len(files), finished.yielded, spawned)
    /\ finished.head
    /\ LET k == next_outgoing(finished.yielded, finished)
           collected == try_collect(handles, spawn_blocking(files[k]))
       IN  IF collected.ok
           THEN /\ handles' = collected.vec
                /\ finished' \in Shift(finished, spawned')
                /\ UNCHANGED <<pc, ret>>
           ELSE /\ pc' = "failed"
                /\ ret' = [kind |-> "Err", spec |-> k]
                /\ finished' \in Shift(finished, spawned')
                /\ UNCHANGED handles
    /\ UNCHANGED <<files, roots, patch_function, seen, pending, result,
                   next_package, i, call, first, loaded, listed, tried>>

\* a poll that finds the stream and the buffer exhausted: the vector is
\* complete and load_records_recursive is called on it (line 284)
PollDone ==
    /\ pc = "collect"
    /\ finished.yielded = Len(files)
    /\ call' = call + 1
    /\ result' = new_result(Len(handles))
    /\ seen' = from_iter(roots)
    /\ pending' \in pending_from(seen', roots)
    /\ next_package' = None
    /\ i' = 0
    /\ pc' = "while"
    /\ ret' = [kind |-> "none"]
    /\ UNCHANGED <<files, handles, roots, patch_function, first, loaded, others>>

\* the oldest task in the buffer completes
FinishHead ==
    /\ spawned > finished.yielded
    /\ ~finished.head
    /\ finished' = [finished EXCEPT !.head = TRUE]
    /\ UNCHANGED <<files, handles, roots, patch_function, seen, pending, result,
                   next_package, i, pc, ret, call, first, loaded, listed, tried,
                   spawned>>

\* a task behind the oldest one completes; a task is not cancelled when the
\* stream is dropped
FinishOther ==
    /\ finished.others < spawned - finished.yielded - 1
    /\ finished' = [finished EXCEPT !.others = @ + 1,
                                    !.overtaken = @ \/ ~finished.head]
    /\ UNCHANGED <<files, handles, roots, patch_function, seen, pending, result,
                   next_package, i, pc, ret, call, first, loaded, listed, tried,
                   spawned>>

NextLoader ==
    \/ PollPending \/ PollReady \/ PollDone \/ FinishHead \/ FinishOther
    \/ PopFront \/ ForHandle \/ Return

SpecLoader == InitLoader /\ [][NextLoader]_vars

-----------------------------------------------------------------------------
(* SparseRepoData::package_names *)

\* (variant) no collapse at all
dedup_nothing(s) == s

\* itertools dedup(): of every run of consecutive equal elements the first stays
RECURSIVE dedup(_)
dedup(s) ==
    IF Len(s) <= 1 THEN s
    ELSE IF s[1] = s[2] THEN dedup(Tail(s))
    ELSE <<s[1]>> \o dedup(Tail(s))

\* .map(|(name, _)| name.package)
map_package(entries) == [k \in DOMAIN entries |-> entries[k].key.package]

\* (variant) each sequence collapsed on its own, then chained
package_names_dedup_each(self) ==
    dedup(map_package(self.inner.packages))
        \o dedup(map_package(self.inner.conda_packages))

\* SparseRepoData::package_names, collected
package_names(self) ==
    dedup(map_package(self.inner.packages \o self.inner.conda_packages))

-----------------------------------------------------------------------------
(* load_records called on one handle *)

InitLoad ==
    /\ files \in {<<file>> : file \in LoadFiles}
    /\ handles = [k \in DOMAIN files |-> Open(files[k])]
    /\ roots = <<>>
    /\ patch_function = "None"
    /\ result = <<>>
    /\ seen = {}
    /\ pending = <<>>
    /\ next_package = None
    /\ i = 0
    /\ pc = "idle"
    /\ ret = [kind |-> "none"]
    /\ call = 0
    /\ first = [roots |-> <<>>, ret |-> [kind |-> "none"]]
    /\ loaded = [called |-> FALSE]
    /\ Idle

\* handles[k].load_records(&package_name)
LoadRecords ==
    \E k \in DOMAIN handles, package_name \in Names :
        /\ loaded' = [called |-> TRUE, handle |-> k, package_name |-> package_name,
                      ret |-> load_records(handles[k], package_name)]
        /\ UNCHANGED <<files, handles, roots, patch_function, seen, pending, result,
                       next_package, i, pc, ret, call, first, others>>

\* handles[k].package_names()
PackageNames ==
    \E k \in DOMAIN handles :
        /\ listed' = [called |-> TRUE, handle |-> k, names |-> package_names(handles[k])]
        /\ UNCHANGED <<files, handles, roots, patch_function, seen, pending, result,
                       next_package, i, pc, ret, call, first, loaded, tried,
                       spawned, finished>>

NextLoad == LoadRecords \/ PackageNames

SpecLoad == InitLoad /\ [][NextLoad]_vars

-----------------------------------------------------------------------------
(* PackageFilename::try_from called on a string *)

FilenameChars == {"-", "1", "a"}

InitTry ==
    /\ files = <<>>
    /\ handles = <<>>
    /\ roots = <<>>
    /\ patch_function = "None"
    /\ result = <<>>
    /\ seen = {}
    /\ pending = <<>>
    /\ next_package = None
    /\ i = 0
    /\ pc = "idle"
    /\ ret = [kind |-> "none"]
    /\ call = 0
    /\ first = [roots |-> <<>>, ret |-> [kind |-> "none"]]
    /\ loaded = [called |-> FALSE]
    /\ listed = [called |-> FALSE]
    /\ spawned = 0
    /\ finished = [yielded |-> 0, head |-> FALSE, others |-> 0, overtaken |-> FALSE]
    /\ \E s \in SeqsUpTo(FilenameChars, MaxFilenameLen) :
           tried = [called |-> FALSE, s |-> s]

\* PackageFilename::try_from(s)
TryFrom ==
    /\ tried' = [called |-> TRUE, s |-> tried.s, ret |-> try_from(tried.s)]
    /\ UNCHANGED <<files, handles, roots, patch_function, seen, pending, result,
                   next_package, i, pc, ret, call, first, loaded, listed,
                   spawned, finished>>

NextTry == TryFrom

SpecTry == InitTry /\ [][NextTry]_vars

-----------------------------------------------------------------------------
(* Vocabulary of the properties *)

\* the shallow entries of a handle, both sequences
AllEntries(h) == Range(h.inner.packages) \cup Range(h.inner.conda_packages)

\* the entries of a handle whose filename-derived package is name
EntriesOf(h, name) == {e \in AllEntries(h) : e.key.package = name}

\* the record the resolver makes of entry e of handle h
Materialized(e, h, patch_fn) ==
    [materialize(e, h.inner.info, h.channel, h.subdir)
        EXCEPT !.package_record = patch_fn_apply(patch_fn, @)]

\* the dependency names of the record of entry e, none if it does not deep-parse
DependenciesOf(e, patch_fn) ==
    IF ~e.raw.valid THEN {}
    ELSE {dependency_name(d) :
            d \in Range(patch_fn_apply(patch_fn, from_str(e.raw).package_record).depends)}

\* the names reachable from R through the depends of the records of any handle
RECURSIVE ReachableFrom(_)
ReachableFrom(R) ==
    LET more == R \cup UNION {DependenciesOf(e, patch_function) :
                        e \in UNION {EntriesOf(handles[k], p) :
                                        k \in DOMAIN handles, p \in R}}
    IN  IF more = R THEN R ELSE ReachableFrom(more)

Count(s, x) == Cardinality({k \in DOMAIN s : s[k] = x})

\* the same elements the same number of times
SameBag(s, t) == \A x \in Range(s) \cup Range(t) : Count(s, x) = Count(t, x)

Returned == pc = "done" /\ ret.kind = "Ok"

-----------------------------------------------------------------------------
(* C1 *)

\* C1: when load_records_recursive returns Ok, every dependency name of every
\* record of the result is the package_record.name of some record of the
\* result, or no loaded handle has an entry for it.
DependenciesClosedByName ==
    Returned =>
        \A k \in DOMAIN ret.value : \A m \in DOMAIN ret.value[k] :
            \A d \in Range(ret.value[k][m].package_record.depends) :
                \/ \E k2 \in DOMAIN ret.value : \E m2 \in DOMAIN ret.value[k2] :
                      ret.value[k2][m2].package_record.name = dependency_name(d)
                \/ \A k2 \in DOMAIN handles : EntriesOf(handles[k2], dependency_name(d)) = {}

-----------------------------------------------------------------------------
(* C2 *)

\* C2: when load_records_recursive returns Ok, for every handle and every name
\* reachable from the roots, every entry of the handle (legacy and conda) whose
\* package is that name appears in the handle's list of the result.
ReachableEntriesLoaded ==
    Returned =>
        \A k \in DOMAIN handles : \A p \in ReachableFrom(Range(roots)) :
            \A e \in EntriesOf(handles[k], p) :
                \E m \in DOMAIN ret.value[k] :
                    ret.value[k][m] = Materialized(e, handles[k], patch_function)

\* a call returned records of a name that is no root, from the second handle
ReachableEntriesLoadedWitness ==
    /\ Returned
    /\ Len(handles) = 2
    /\ \E m \in DOMAIN ret.value[2] :
          /\ ret.value[2][m].package_record.name \notin Range(roots)
          /\ ret.value[2][m].package_record.name \in ReachableFrom(Range(roots))

-----------------------------------------------------------------------------
(* C3 *)

\* C3: at every step there is one list per handle, in handle order, and the
\* k-th list holds only records materialized from the k-th handle; the value
\* returned is these lists.
ResultPerHandle ==
    /\ pc \in {"while", "for", "done", "err"} =>
          /\ Len(result) = Len(handles)
          /\ \A k \in DOMAIN result : \A m \in DOMAIN result[k] :
                \E e \in AllEntries(handles[k]) :
                    /\ e.raw.valid
                    /\ result[k][m] = Materialized(e, handles[k], patch_function)
    /\ Returned => ret.value = result /\ Len(ret.value) = Len(files)

\* two different handles, both with records in the returned lists
ResultPerHandleWitness ==
    /\ Returned
    /\ Len(handles) = 2
    /\ handles[1] # handles[2]
    /\ ret.value[1] # <<>>
    /\ ret.value[2] # <<>>

-----------------------------------------------------------------------------
(* C4 *)

\* C4: the call on roots with duplicates and the call on the de-duplicated
\* roots end alike: both Err, or both Ok with, for every handle, the same
\* records the same number of times (the order of the packages within a list
\* is the iteration order of the HashSet in either call).
DuplicateRootsSameResult ==
    (call = 2 /\ pc \in {"done", "err"}) =>
        /\ ret.kind = first.ret.kind
        /\ ret.kind = "Ok" =>
              /\ Len(ret.value) = Len(first.ret.value)
              /\ \A k \in DOMAIN ret.value : SameBag(ret.value[k], first.ret.value[k])

\* roots of two names, one of them repeated, and records returned
DuplicateRootsWitness ==
    /\ call = 2
    /\ Returned
    /\ Len(first.roots) > Len(roots)
    /\ Cardinality(Range(roots)) = 2
    /\ \E k \in DOMAIN ret.value : Len(ret.value[k]) >= 2

-----------------------------------------------------------------------------
(* C5 *)

\* C5: with no roots nothing is materialized at any step and the call returns
\* one empty list per handle.
EmptyRootsEmptyLists ==
    (call = 1 /\ roots = <<>>) =>
        /\ pc \in {"while", "done"}
        /\ \A k \in DOMAIN result : result[k] = <<>>
        /\ pc = "done" => ret = [kind |-> "Ok", value |-> [k \in DOMAIN files |-> <<>>]]

\* two non-empty handles, no roots, returned
EmptyRootsWitness ==
    /\ roots = <<>>
    /\ Returned
    /\ Len(handles) = 2
    /\ \A k \in DOMAIN handles : AllEntries(handles[k]) # {}

-----------------------------------------------------------------------------
(* C6 *)

\* the (name, handle) pairs whose for-loop body has completed
Processed ==
    {<<p, k>> \in (seen \ Range(pending)) \X DOMAIN handles :
        \/ pc \in {"while", "done"}
        \/ p # next_package
        \/ pc = "for" /\ k < i
        \/ pc = "err" /\ k < i}

\* C6: the call returns either Err, and it does so at the first raw record that
\* does not deep-parse (no handle is processed past one), or Ok with one list
\* per handle made of completely parsed records only.
AbortOnFirstParseError ==
    /\ ret.kind = "Err" <=> pc = "err"
    /\ ret.kind = "Ok" <=> pc = "done"
    /\ \A pk \in Processed : \A e \in EntriesOf(handles[pk[2]], pk[1]) : e.raw.valid
    /\ pc = "err" => \E e \in EntriesOf(handles[i], next_package) : ~e.raw.valid
    /\ Returned =>
          /\ Len(ret.value) = Len(handles)
          /\ \A k \in DOMAIN ret.value : \A m \in DOMAIN ret.value[k] :
                \E e \in AllEntries(handles[k]) :
                    /\ e.raw.valid
                    /\ ret.value[k][m] = Materialized(e, handles[k], patch_function)

\* the call failed after records of an earlier package had been collected
AbortWitness ==
    /\ pc = "err"
    /\ ret = [kind |-> "Err"]
    /\ \E k \in DOMAIN result : result[k] # <<>>

-----------------------------------------------------------------------------
(* Vocabulary of the load_records properties *)

\* the document the handle of the last load_records call was built from
LoadedFile == files[loaded.handle].path

\* positions of the keys of a JSON map whose filename-derived package is name:
\* the linear filter
Matching(map, name) == {k \in DOMAIN map : try_from(map[k].filename).package = name}

\* position of a filename among the keys of a JSON map, 0 if not there
KeyIndex(map, filename) ==
    IF \E k \in DOMAIN map : map[k].filename = filename
    THEN CHOOSE k \in DOMAIN map : map[k].filename = filename
    ELSE 0

LoadedOk == loaded.called /\ loaded.ret.ok

FilenameSorted(map) ==
    \A k \in 1..(Len(map) - 1) : cmp(map[k].filename, map[k + 1].filename) = "Less"

PackageSorted(map) ==
    \A k \in 1..(Len(map) - 1) :
        cmp(try_from(map[k].filename).package,
            try_from(map[k + 1].filename).package) # "Greater"

-----------------------------------------------------------------------------
(* C7 *)

\* C7: load_records(name) returns exactly one record for every key of both
\* maps of the document whose filename-derived package is name and no other
\* record (Err exactly when one of these does not deep-parse), whatever the
\* order of the keys in the document.
LoadRecordsIsLinearFilter ==
    loaded.called =>
        LET legacy == Matching(LoadedFile.packages, loaded.package_name)
            conda == Matching(LoadedFile.conda_packages, loaded.package_name)
            failing == \/ \E k \in legacy : ~LoadedFile.packages[k].raw.valid
                       \/ \E k \in conda : ~LoadedFile.conda_packages[k].raw.valid
        IN  /\ loaded.ret.ok <=> ~failing
            /\ loaded.ret.ok =>
                  LET records == loaded.ret.records
                  IN  /\ Len(records) = Cardinality(legacy) + Cardinality(conda)
                      /\ \A k \in legacy : \E m \in DOMAIN records :
                            records[m].file_name = LoadedFile.packages[k].filename
                      /\ \A k \in conda : \E m \in DOMAIN records :
                            records[m].file_name = LoadedFile.conda_packages[k].filename
                      /\ \A m \in DOMAIN records :
                            try_from(records[m].file_name).package = loaded.package_name

\* keys sorted by filename and not by package; the two records of the name
\* that lie around a key of another package are returned
LoadRecordsWitness ==
    /\ LoadedOk
    /\ FilenameSorted(LoadedFile.packages)
    /\ ~PackageSorted(LoadedFile.packages)
    /\ Len(loaded.ret.records) = 2
    /\ Cardinality(Matching(LoadedFile.packages, loaded.package_name)) = 2

-----------------------------------------------------------------------------
(* C8 *)

\* C8: every record returned by load_records(name) has package_record.name = name.
LoadedRecordsNamed ==
    LoadedOk =>
        \A m \in DOMAIN loaded.ret.records :
            loaded.ret.records[m].package_record.name = loaded.package_name

-----------------------------------------------------------------------------
(* C9 *)

\* C9: in the list returned by load_records the records of `packages` come
\* before those of `packages.conda`, and the records of one map are in the
\* order in which their keys occur in the document.
LegacyFirstThenDocumentOrder ==
    LoadedOk =>
        LET records == loaded.ret.records
            legacy(m) == KeyIndex(LoadedFile.packages, records[m].file_name)
            conda(m) == KeyIndex(LoadedFile.conda_packages, records[m].file_name)
        IN  \A m, n \in DOMAIN records :
                m < n =>
                    \/ legacy(m) # 0 /\ conda(n) # 0
                    \/ legacy(m) # 0 /\ legacy(n) # 0 /\ legacy(m) < legacy(n)
                    \/ conda(m) # 0 /\ conda(n) # 0 /\ conda(m) < conda(n)

\* two legacy records whose keys are not in filename order, then a conda record
LegacyFirstWitness ==
    /\ LoadedOk
    /\ Len(loaded.ret.records) = 3
    /\ KeyIndex(LoadedFile.packages, loaded.ret.records[1].file_name) # 0
    /\ KeyIndex(LoadedFile.packages, loaded.ret.records[2].file_name) # 0
    /\ cmp(loaded.ret.records[1].file_name, loaded.ret.records[2].file_name) = "Greater"
    /\ KeyIndex(LoadedFile.conda_packages, loaded.ret.records[3].file_name) # 0

-----------------------------------------------------------------------------
(* C10 *)

\* the raw record of the last call's document that a returned record was made of
RawOf(record) ==
    LET all == LoadedFile.packages \o LoadedFile.conda_packages
    IN  all[KeyIndex(all, record.file_name)].raw

\* C10 as stated: every materialized record has a non-empty subdir.
SubdirNonEmpty ==
    LoadedOk =>
        \A m \in DOMAIN loaded.ret.records :
            loaded.ret.records[m].package_record.subdir # <<>>

\* C10 as amended: a raw record with an omitted or empty subdir materializes
\* with the subdir of the handle, a raw record with a non-empty subdir keeps
\* its own; the subdir is non-empty whenever the subdir of the handle is.
SubdirOfHandleIfEmpty ==
    LoadedOk =>
        \A m \in DOMAIN loaded.ret.records :
            LET record == loaded.ret.records[m]
                raw == RawOf(record)
                self == handles[loaded.handle]
            IN  /\ raw.subdir \in {None, <<>>} =>
                      record.package_record.subdir = self.subdir
                /\ raw.subdir \notin {None, <<>>} =>
                      record.package_record.subdir = raw.subdir
                /\ self.subdir # <<>> => record.package_record.subdir # <<>>

\* one call returned a record whose raw subdir is omitted, one whose raw subdir
\* is empty and one that kept its own, from a handle with a subdir
SubdirWitness ==
    /\ LoadedOk
    /\ handles[loaded.handle].subdir # <<>>
    /\ \E m \in DOMAIN loaded.ret.records : RawOf(loaded.ret.records[m]).subdir = None
    /\ \E m \in DOMAIN loaded.ret.records : RawOf(loaded.ret.records[m]).subdir = <<>>

-----------------------------------------------------------------------------
(* C11 *)

\* the sequence s without its elements equal to x
RECURSIVE Without(_, _)
Without(s, x) ==
    IF s = <<>> THEN <<>>
    ELSE IF Head(s) = x THEN Without(Tail(s), x)
    ELSE <<Head(s)>> \o Without(Tail(s), x)

\* what a patch function leaves of the depends of a raw record: the list
\* itself, and for python under add_pip the list without b and with pip once
\* at its end
PatchedOnce(patch_fn, raw) ==
    IF patch_fn = "add_pip" /\ raw.name = python
    THEN Without(raw.depends, <<"b">>) \o <<pip>>
    ELSE raw.depends

\* C11: every record returned by load_records carries the name of its raw
\* record and its depends patched exactly once by the handle's patch function;
\* without a patch function the depends are those of the raw record.
PatchAppliedOnce ==
    LoadedOk =>
        \A m \in DOMAIN loaded.ret.records :
            LET record == loaded.ret.records[m]
                self == handles[loaded.handle]
            IN  /\ record.package_record.name = RawOf(record).name
                /\ record.package_record.depends =
                       PatchedOnce(self.patch_record_fn, RawOf(record))
                /\ self.patch_record_fn = "None" =>
                       record.package_record.depends = RawOf(record).depends

\* python loaded from a handle whose patch function adds pip
PatchAppliedWitness ==
    /\ LoadedOk
    /\ handles[loaded.handle].patch_record_fn = "add_pip"
    /\ loaded.package_name = python
    /\ loaded.ret.records # <<>>
    /\ \A m \in DOMAIN loaded.ret.records :
          Count(loaded.ret.records[m].package_record.depends, pip) = 1

-----------------------------------------------------------------------------
(* C12 *)

\* the raw record of handle h that a record of the resolver was made of
RawIn(h, record) ==
    (CHOOSE e \in AllEntries(h) : e.key.filename = record.file_name).raw

\* C12: in a traversal every materialized record is patched with the patch
\* function given to load_records_recursive, whatever the one of its handle.
ResolverPatchFunctionUsed ==
    pc \in {"while", "for", "done", "err"} =>
        \A k \in DOMAIN result : \A m \in DOMAIN result[k] :
            result[k][m].package_record.depends =
                PatchedOnce(patch_function, RawIn(handles[k], result[k][m]))

\* python returned with pip added by the call, from a handle without a patch
\* function, next to a handle that has one
ResolverPatchWitness ==
    /\ Returned
    /\ patch_function = "add_pip"
    /\ \E k \in DOMAIN handles :
          /\ handles[k].patch_record_fn = "None"
          /\ \E m \in DOMAIN ret.value[k] :
                /\ ret.value[k][m].package_record.name = python
                /\ Count(ret.value[k][m].package_record.depends, pip) = 1
    /\ \E k \in DOMAIN handles :
          /\ handles[k].patch_record_fn = "add_pip"
          /\ \E m \in DOMAIN ret.value[k] :
                /\ ret.value[k][m].package_record.name = python
                /\ Count(ret.value[k][m].package_record.depends, pip) = 1

-----------------------------------------------------------------------------
(* C13 *)

\* each key of the JSON map is in the shallow sequence once, with its package
\* and its raw record, and nothing else is
PermutationOf(sequence, map) ==
    /\ Len(sequence) = Len(map)
    /\ \A k \in DOMAIN map :
          Cardinality({j \in DOMAIN sequence :
              /\ sequence[j].key.filename = map[k].filename
              /\ sequence[j].key.package = try_from(map[k].filename).package
              /\ sequence[j].raw = map[k].raw}) = 1

Ascending(sequence) ==
    \A k \in 1..(Len(sequence) - 1) :
        cmp(sequence[k].key.package, sequence[k + 1].key.package) # "Greater"

\* C13: in every handle both shallow sequences are ascending by package (ties
\* allowed) and hold exactly the entries of their map of the document.
ShallowSequencesSorted ==
    \A k \in DOMAIN handles :
        /\ Ascending(handles[k].inner.packages)
        /\ Ascending(handles[k].inner.conda_packages)
        /\ PermutationOf(handles[k].inner.packages, files[k].path.packages)
        /\ PermutationOf(handles[k].inner.conda_packages, files[k].path.conda_packages)

\* a handle built from keys sorted by filename and not by package: the sort
\* moved entries
ShallowSequencesWitness ==
    /\ Len(handles) = 1
    /\ Len(files[1].path.packages) = 3
    /\ FilenameSorted(files[1].path.packages)
    /\ ~PackageSorted(files[1].path.packages)
    /\ \E k \in DOMAIN files[1].path.packages :
          handles[1].inner.packages[k].key.filename # files[1].path.packages[k].filename

-----------------------------------------------------------------------------
(* C14 *)

\* the fields of s between its dashes, left to right
RECURSIVE Fields(_)
Fields(s) ==
    IF Positions(s, "-") = {} THEN <<s>>
    ELSE LET dash == Min(Positions(s, "-"))
         IN  <<SubSeq(s, 1, dash - 1)>> \o Fields(SubSeq(s, dash + 1, Len(s)))

\* the fields put together again with dashes between them
RECURSIVE Joined(_)
Joined(fields) ==
    IF Len(fields) = 0 THEN <<>>
    ELSE IF Len(fields) = 1 THEN fields[1]
    ELSE fields[1] \o <<"-">> \o Joined(Tail(fields))

\* C14: try_from fails exactly on the strings of fewer than three fields;
\* otherwise filename is the string and package its fields but the last two.
FilenameParsedByFields ==
    tried.called =>
        LET fields == Fields(tried.s)
        IN  /\ tried.ret.ok <=> Len(fields) >= 3
            /\ tried.ret.ok =>
                  /\ tried.ret.filename = tried.s
                  /\ tried.ret.package = Joined(SubSeq(fields, 1, Len(fields) - 2))

\* a name with a dash in it, as clang-format-13 of clang-format-13-13.0.1-default_0
FilenameParsedWitness ==
    /\ tried.called
    /\ tried.ret.ok
    /\ tried.ret.package = <<"a", "-", "1">>
    /\ Len(Fields(tried.s)) = 4

-----------------------------------------------------------------------------
(* C15 *)

DashesOf(s) == Cardinality(Positions(s, "-"))

\* the n-th dash of s counted from its end
DashFromLast(s, n) ==
    CHOOSE d \in Positions(s, "-") :
        Cardinality({e \in Positions(s, "-") : e >= d}) = n

\* C15 as stated: the package ends immediately before the third-from-last dash.
PackageEndsBeforeThirdLastDash ==
    (tried.called /\ tried.ret.ok) =>
        /\ DashesOf(tried.s) >= 3
        /\ tried.ret.package = SubSeq(tried.s, 1, DashFromLast(tried.s, 3) - 1)

\* C15 as amended: the package is the prefix of the string that ends
\* immediately before its second-from-last dash: a dash follows it, and what
\* follows that dash holds exactly one more dash.
PackageEndsBeforeSecondLastDash ==
    (tried.called /\ tried.ret.ok) =>
        LET n == Len(tried.ret.package)
        IN  /\ n < Len(tried.s)
            /\ tried.ret.package = SubSeq(tried.s, 1, n)
            /\ tried.s[n + 1] = "-"
            /\ DashesOf(SubSeq(tried.s, n + 2, Len(tried.s))) = 1

\* a string of three dashes: the package runs past the third-from-last one
PackageEndsWitness ==
    /\ tried.called
    /\ tried.ret.ok
    /\ DashesOf(tried.s) = 3
    /\ DashesOf(tried.ret.package) = 1
    /\ Len(tried.ret.package) = DashFromLast(tried.s, 2) - 1

-----------------------------------------------------------------------------
(* C19 *)

\* the names in the keys of a shallow sequence
NamesIn(entries) == {entries[k].key.package : k \in DOMAIN entries}

LegacyNames == NamesIn(handles[listed.handle].inner.packages)
CondaNames == NamesIn(handles[listed.handle].inner.conda_packages)

StrictlyAscending(s) ==
    \A j, k \in DOMAIN s : j < k => cmp(s[j], s[k]) = "Less"

\* the collapse of the last legacy name with the first conda name
Collapsed ==
    \E n \in LegacyNames \cap CondaNames :
        /\ \A m \in LegacyNames : cmp(m, n) # "Greater"
        /\ \A m \in CondaNames : cmp(n, m) # "Greater"

\* C19: the yielded names are the legacy names in ascending order followed by
\* conda names in ascending order, and no two neighbours are equal.
PackageNamesSortedInParts ==
    listed.called =>
        LET names == listed.names
            n == Cardinality(LegacyNames)
        IN  /\ n <= Len(names)
            /\ Range(SubSeq(names, 1, n)) = LegacyNames
            /\ Range(SubSeq(names, n + 1, Len(names))) \subseteq CondaNames
            /\ StrictlyAscending(SubSeq(names, 1, n))
            /\ StrictlyAscending(SubSeq(names, n + 1, Len(names)))
            /\ \A k \in 1..(Len(names) - 1) : names[k] # names[k + 1]

\* two legacy keys of one name, and a conda name below the legacy one
PackageNamesWitness ==
    /\ listed.called
    /\ Len(handles[listed.handle].inner.packages) > Cardinality(LegacyNames)
    /\ CondaNames # {}
    /\ \E k \in 1..(Len(listed.names) - 1) :
          cmp(listed.names[k], listed.names[k + 1]) = "Greater"

-----------------------------------------------------------------------------
(* C20 *)

\* C20 as stated: a name of both sequences is yielded once for each.
CrossDuplicatesRetained ==
    listed.called =>
        \A n \in LegacyNames \cap CondaNames : Count(listed.names, n) = 2

\* C20 as amended: a name of both sequences is yielded twice, unless it is the
\* last legacy name and the first conda name: these two are neighbours in the
\* chain and collapse into one.  A name of one sequence only is yielded once.
CrossDuplicatesRetainedUnlessAdjacent ==
    listed.called =>
        /\ Len(listed.names) = Cardinality(LegacyNames) + Cardinality(CondaNames)
                                  - (IF Collapsed THEN 1 ELSE 0)
        /\ \A n \in LegacyNames \cup CondaNames :
              Count(listed.names, n) =
                  IF n \in LegacyNames \cap CondaNames
                        /\ ~ ( /\ \A m \in LegacyNames : cmp(m, n) # "Greater"
                               /\ \A m \in CondaNames : cmp(n, m) # "Greater" )
                  THEN 2 ELSE 1

\* the name a ends the legacy sequence and begins the conda sequence
CrossDuplicatesWitness ==
    /\ listed.called
    /\ Collapsed
    /\ Cardinality(CondaNames) = 2
    /\ Len(listed.names) = 2

-----------------------------------------------------------------------------
(* C16 *)

\* the constructions started and not yet completed
InFlight ==
    spawned - finished.yielded - (IF finished.head THEN 1 ELSE 0) - finished.others

\* C16: never more than 50 constructions are started and not yet completed.
AtMostFiftyInFlight == InFlight >= 0 /\ InFlight <= 50

\* fifty constructions running while a further spec waits for a free place
FiftyInFlightWitness ==
    /\ InFlight = 50
    /\ spawned < Len(files)
    /\ pc = "collect"

-----------------------------------------------------------------------------
(* C17 *)

\* C17: the k-th collected handle is the handle of the k-th spec, and the
\* k-th list of the result holds records of the k-th spec's channel only:
\* those its file has for the names asked for.
HandlesInInputOrder ==
    /\ \A k \in DOMAIN handles :
          /\ k <= Len(files)
          /\ handles[k].channel = files[k].channel
          /\ handles[k] = Open(files[k])
    /\ Returned =>
          /\ Len(ret.value) = Len(files)
          /\ \A k \in DOMAIN files :
                /\ \A n \in DOMAIN ret.value[k] :
                      ret.value[k][n].channel = files[k].channel
                /\ roots # <<>> => ret.value[k] # <<>>

\* a load that returned although a construction completed before an older one
HandlesInInputOrderWitness ==
    /\ Returned
    /\ finished.overtaken
    /\ Len(files) = MaxSpecs
    /\ ret.value[Len(files)] # <<>>

-----------------------------------------------------------------------------
(* C18 *)

\* the specs whose file does not open
FailingSpecs == {k \in DOMAIN files : files[k].path = BadDocument}

\* C18: the resolver is called at most once, only with the handles of all
\* specs, and never when a construction fails; a failed load returns the
\* error of the first failing spec.
FirstConstructionErrorFails ==
    /\ call \in {0, 1}
    /\ call = 0 <=> pc \in {"collect", "failed"}
    /\ call = 1 => FailingSpecs = {} /\ Len(handles) = Len(files)
    /\ FailingSpecs # {} => call = 0
    /\ pc = "failed" =>
          /\ ret.kind = "Err"
          /\ ret.spec \in FailingSpecs
          /\ \A k \in FailingSpecs : ret.spec <= k
          /\ Len(handles) = ret.spec - 1

\* two failing specs, the load failed with the error of the first of them
\* after a handle was collected and while later constructions had completed
FirstConstructionErrorWitness ==
    /\ pc = "failed"
    /\ Cardinality(FailingSpecs) = 2
    /\ ret.spec = 2
    /\ Len(handles) = 1
    /\ finished.others > 0

-----------------------------------------------------------------------------
(* C21 *)

\* C21: package_names yields no package name more than once.
PackageNamesUnique ==
    listed.called =>
        \A n \in LegacyNames \cup CondaNames : Count(listed.names, n) <= 1

-----------------------------------------------------------------------------
(* C22 *)

\* the longest prefix of d without a space: d itself, or what a space follows
BeforeFirstSpace(d) ==
    CHOOSE p \in {SubSeq(d, 1, n) : n \in 0..Len(d)} :
        /\ \A k \in DOMAIN p : p[k] # " "
        /\ Len(p) = Len(d) \/ d[Len(p) + 1] = " "

\* the depends entries of the records in the lists of the result
ResultDepends ==
    UNION {UNION {Range(result[k][m].package_record.depends) :
                     m \in DOMAIN result[k]} : k \in DOMAIN result}

\* C22: the names the traversal has seen are the roots and, for every depends
\* entry of every record loaded so far, what precedes its first space (all of
\* it without a space), whatever follows the space; the traversal ends in Err
\* only at a raw record that does not deep-parse.
DependencyNameIsFirstField ==
    pc \in {"while", "for", "done", "err"} =>
        /\ seen = Range(roots) \cup {BeforeFirstSpace(d) : d \in ResultDepends}
        /\ pc = "err" => \E e \in EntriesOf(handles[i], next_package) : ~e.raw.valid

\* a call returned a record with the depends entry `p  -`, whose constraint is
\* no version, and the records of p with it
DependencyNameWitness ==
    /\ Returned
    /\ <<"p", " ", " ", "-">> \in ResultDepends
    /\ pip \in seen \ Range(roots)
    /\ \E k \in DOMAIN ret.value : \E m \in DOMAIN ret.value[k] :
          ret.value[k][m].file_name = <<"p", "-", "1", "-", "c">>

-----------------------------------------------------------------------------
(* C23 *)

\* the records of the k-th list made of the entry with this filename key
RecordsOf(k, filename) == {m \in DOMAIN result[k] : result[k][m].file_name = filename}

\* the package names whose entries have records in the lists
LoadedNames ==
    UNION {{try_from(result[k][m].file_name).package : m \in DOMAIN result[k]} :
              k \in DOMAIN result}

\* C23: every queued name is in seen, no name is queued twice, the name being
\* processed and the names with records in the lists are not in the queue, and
\* no entry of any handle has more than one record in that handle's list.
EnqueuedAndProcessedOnce ==
    pc \in {"while", "for", "done", "err"} =>
        /\ Range(pending) \subseteq seen
        /\ \A n \in Range(pending) : Count(pending, n) = 1
        /\ pc \in {"for", "err"} => next_package \in seen \ Range(pending)
        /\ LoadedNames \subseteq seen \ Range(pending)
        /\ \A k \in DOMAIN handles : \A e \in AllEntries(handles[k]) :
              Cardinality(RecordsOf(k, e.key.filename)) <= 1

\* a call returned the records of a and b, which depend on each other, and b
\* is also a dependency of a second record of a
EnqueuedOnceWitness ==
    /\ Returned
    /\ roots = << <<"a">> >>
    /\ \E k \in DOMAIN handles :
          /\ RecordsOf(k, <<"a", "-", "0", "-", "t">>) # {}
          /\ RecordsOf(k, <<"a", "-", "0", "-", "c">>) # {}
          /\ RecordsOf(k, <<"b", "-", "0", "-", "t">>) # {}

-----------------------------------------------------------------------------
(* C24 *)

\* the call has returned: Ok with the queue empty, or Err
Terminated == (pc = "done" /\ pending = <<>> /\ ret.kind = "Ok") \/ pc = "err"

\* C24: every call of the resolver returns, cycles and self-dependencies in
\* the dependency graph included: Ok once the queue is empty, or Err.
ResolverTerminates == <>Terminated

\* a call on a cycle has returned Ok: a depends on b, b on a, both are loaded
ResolverTerminatesWitness ==
    /\ Returned
    /\ pending = <<>>
    /\ \E k \in DOMAIN ret.value : \E m, n \in DOMAIN ret.value[k] :
          /\ ret.value[k][m].package_record.name = <<"a">>
          /\ ret.value[k][n].package_record.name = <<"b">>
          /\ <<"a">> \in {dependency_name(d) : d \in Range(ret.value[k][n].package_record.depends)}
          /\ <<"b">> \in {dependency_name(d) : d \in Range(ret.value[k][m].package_record.depends)}

-----------------------------------------------------------------------------
(* C25 *)

\* the records load_records returns for the entry a record was made of
OwnRecords(h, record) ==
    UNION {IF ~own.ok THEN {}
           ELSE {r \in Range(own.records) : r.file_name = record.file_name} :
              own \in {load_records(h, try_from(record.file_name).package)}}

\* C25: in a traversal without a patch function every record has the name and
\* the depends of its raw record, also in the list of a handle that has a
\* patch function of its own, while load_records on such a handle returns the
\* same entry patched by it.
HandleHooksIgnoredWithoutHook ==
    (pc \in {"while", "for", "done", "err"} /\ patch_function = "None") =>
        \A k \in DOMAIN result : \A m \in DOMAIN result[k] :
            LET record == result[k][m]
                raw == RawIn(handles[k], record)
            IN  /\ record.package_record.name = raw.name
                /\ record.package_record.depends = raw.depends
                /\ handles[k].patch_record_fn # "None" =>
                      \A owns \in {OwnRecords(handles[k], record)} :
                          /\ owns # {}
                          /\ \A own \in owns :
                                own.package_record.depends =
                                    PatchedOnce(handles[k].patch_record_fn, raw)

\* python returned unpatched from a handle whose own patch function would
\* have replaced its dependency b by pip
HandleHooksIgnoredWitness ==
    /\ Returned
    /\ patch_function = "None"
    /\ \E k \in DOMAIN handles :
          /\ handles[k].patch_record_fn = "add_pip"
          /\ \E m \in DOMAIN ret.value[k] :
                /\ ret.value[k][m].package_record.name = python
                /\ ret.value[k][m].package_record.depends = << <<"b">> >>
                /\ \E own \in OwnRecords(handles[k], ret.value[k][m]) :
                      own.package_record.depends = <<pip>>

-----------------------------------------------------------------------------
(* C26 *)

\* the depends, after the patch function of the call, of the raw records that
\* the records in the lists were made of
PatchedDepends ==
    UNION {UNION {Range(PatchedOnce(patch_function, RawIn(handles[k], result[k][m]))) :
                     m \in DOMAIN result[k]} : k \in DOMAIN result}

\* C26: the names the traversal has seen are the roots and the names of the
\* depends that the loaded records have after the patch function: a dependency
\* the function adds is followed, one it takes away is not; and when the call
\* returns, every entry of every handle for a name seen has its record in the
\* handle's list.
DependenciesReadAfterPatch ==
    pc \in {"while", "for", "done", "err"} =>
        /\ seen = Range(roots) \cup {BeforeFirstSpace(d) : d \in PatchedDepends}
        /\ Returned =>
              \A k \in DOMAIN handles : \A n \in seen :
                  \A e \in EntriesOf(handles[k], n) : RecordsOf(k, e.key.filename) # {}

\* with add_pip a call on python returned the record of pip from one handle
\* and left out b, for which the other handle has an entry
DependenciesReadWitness ==
    /\ Returned
    /\ patch_function = "add_pip"
    /\ roots = <<python>>
    /\ pip \in seen
    /\ <<"b">> \notin seen
    /\ \E k \in DOMAIN handles : RecordsOf(k, <<"p", "y", "-", "0", "-", "t">>) # {}
    /\ \E k \in DOMAIN handles : RecordsOf(k, <<"p", "-", "1", "-", "c">>) # {}
    /\ \E k \in DOMAIN handles : EntriesOf(handles[k], <<"b">>) # {}

=============================================================================
